---- MODULE Spec2Model ----
(***************************************************************************)
(* A model of the incremental store (src/lib/markdown.ts), of the two      *)
(* in-page extraction scripts (src/lib/extract.ts), of the export loop    *)
(* (src/export-all.ts) and of the retention analysis                       *)
(* (src/lib/retention.ts) of the Teams exporter.                           *)
(*                                                                         *)
(* An archive file is a sequence of newline-terminated lines.  A line is a *)
(* record; the wall-clock instants the code prints into the "Exported:"    *)
(* and "Export appended:" lines are not kept (nothing reads them back).    *)
(* Instants are small integers; Null stands for JavaScript's null.         *)
(***************************************************************************)
EXTENDS Integers, Sequences, FiniteSets, TLC

\* ------------------------------------------------------------------ bounds
MaxId == 3
MaxTime == 3

Ids == 1..MaxId
Times == 1..MaxTime
Null == 0

VARIABLES
  stamp,         \* the timestamp each message id carries in the host view
  hasList,       \* the host view has the message-list container
  file,          \* the archive file of one chat: [exists, lines]
  batch,         \* ids of the batch of the latest saveChat call (SpecBatch)
  ret,           \* what the latest call returned
  written,       \* ids that passed the filter of some call
  lastWritten,   \* id of the last message of the latest call that wrote
  \* getExtractionScript (scroll toward older history)
  upPc,          \* "idle", "scrolling", "settling", "dedup", "done", "failed"
  needsScroll,   \* days >= 0
  cutoffDate,    \* now - days, or Null
  sinceDate,     \* the resume timestamp, or Null
  collected,     \* the collected nodes, in order of first collection
  scrollIter,    \* counted up to MaxScrollIter (only log lines read it)
  noChangeCount,
  prevOldest,
  upResult,      \* the ExtractionResult
  \* getScrollDownExtractionScript (scroll toward newer history)
  dnPc,          \* "idle", "scrolling", "dedup", "done", "failed"
  step,
  dnNoChange,    \* its noChangeCount
  cycles,        \* trigger-collect cycles performed
  dnResult,
  \* main (export-all.ts): the export loop over the chats
  mainPc,        \* "idle", "navigate", "quickcheck", "extracting", "result"
  chatNo,        \* i + 1
  visible,       \* ids whose timestamp element is in the open chat's DOM
  running,       \* in-page extraction scripts that have not ended
  evalState,     \* page.evaluate(script): "none", "pending", "fulfilled",
                 \* "rejected"
  scriptRet,     \* what the awaited script returned
  timerFired,    \* the deadline timer of the current race has fired
  raceFirst,     \* what settled first: "none", "script", "timer", "failure"
  result,        \* what extractCurrentChat returned
  outcome,       \* what the iteration counted: "none", "failed", "quick",
                 \* "skipped", "exported"
  chatName,      \* the chat name of the last call that took one
  filename,      \* what sanitizeFilename made of it
  dir,           \* the output directory: file name -> archive file
  libPc,         \* a library function called on its own: "idle", "called",
                 \* "done"
  toRender,      \* the batch handed to messagesToMarkdown
  markdown,      \* the lines it returned
  stallRun,      \* scroll-down loop: consecutive cycles without a new id
  jumpedAt,      \* the positions in that run at which it made the big jump
  dnExit,        \* how the loop ended: "none", "stall", "bottom", "ceiling"
  bottomRun,     \* consecutive cycles that saw the pane at the bottom
  builtFrom,     \* the nodes the returned messages were built from
  exports,       \* the archives analyzeRetention finds, in glob order
  now,           \* the instant of the analysis
  report,        \* the VisibilityAnalysis it returned
  DAYS,          \* the days parameter getExtractionScript is called with
  saving,        \* a saveChat call taken await by await: where it stands,
                 \* its locals, its writes so far, the file it found
  tally          \* main's counters, and for the chat at hand the calls of
                 \* extractCurrentChat and saveChat

storeVars == <<stamp, hasList, file, batch, ret, written, lastWritten>>
upVars == <<upPc, needsScroll, cutoffDate, sinceDate, collected, scrollIter,
            noChangeCount, prevOldest, upResult>>
dnVars == <<dnPc, step, dnNoChange, cycles, dnResult>>
runVars == <<mainPc, chatNo, visible, running, evalState, scriptRet,
             timerFired, raceFirst, result, outcome>>
nameVars == <<chatName, filename, dir>>
renderVars == <<toRender, markdown>>
traceVars == <<stallRun, jumpedAt, dnExit, bottomRun, builtFrom>>
retVars == <<exports, now, report>>
callVars == <<DAYS, saving, tally>>
libVars == <<nameVars, libPc, renderVars, traceVars, retVars, callVars>>
vars == <<storeVars, upVars, dnVars, runVars, libVars>>

\* ------------------------------------------------------------ small helpers
Max(S) == CHOOSE x \in S : \A y \in S : y <= x

Range(s) == {s[i] : i \in 1..Len(s)}

RECURSIVE SortedSeq(_)
SortedSeq(S) ==
  IF S = {} THEN <<>>
  ELSE LET m == CHOOSE x \in S : \A y \in S : x <= y
       IN <<m>> \o SortedSeq(S \ {m})

\* ------------------------------------------------------------------ lines
Line(kind, who, ts, id) == [kind |-> kind, who |-> who, ts |-> ts, id |-> id]

Blank == Line("blank", "", Null, Null)
Rule == Line("rule", "", Null, Null)                 \* "---"
Title == Line("title", "", Null, Null)               \* "# <chat name>"
Exported == Line("exported", "", Null, Null)         \* "Exported: <now>"
Appended == Line("appended", "", Null, Null)         \* "### Export appended: <now>"
Foreign == Line("foreign", "", Null, Null)           \* text saveChat did not write
DayHeading(d) == Line("day", "", d, Null)            \* "## <day>"
AuthorLine(a, t) == Line("author", a, t, Null)       \* "**a** [t]:"
ContLine(t) == Line("cont", "", t, Null)             \* "*[t]:*"
ContentLine(i) == Line("content", "", Null, i)       \* the text of message i
Marker(t) == Line("marker", "", t, Null)             \* "<!-- last-message: t -->"

NoFile == [exists |-> FALSE, lines |-> <<>>]
\* An archive that carries no cursor marker (an export made without one, or
\* an edited file): src/tests/markdown.test.ts:196-202 builds such a file.
UnmarkedFile == [exists |-> TRUE, lines |-> <<Title, Foreign>>]

\* --------------------------------------------------------------- messages
AuthorOf(i) == IF i % 2 = 1 THEN "Alice" ELSE "Bob"

\* The calendar day of an instant: two instants to a day.
DayOf(t) == (t + 1) \div 2

Msg(i) == [id |-> i, author |-> AuthorOf(i), timestamp |-> stamp[i]]

\* A batch is ascending by id with no id twice (extract.ts:137-148).
Batches == {SortedSeq(S) : S \in SUBSET Ids}

Messages(ids) == [k \in 1..Len(ids) |-> Msg(ids[k])]

\* ------------------------------------------------------ messagesToMarkdown
\* if (lastDateStr !== "") lines.push("", "---", "")
DaySeparatorAlways(lastDay) == <<Blank, Rule, Blank>>

DaySeparator(lastDay) ==
  IF lastDay # Null THEN <<Blank, Rule, Blank>> ELSE <<>>

RECURSIVE Render(_, _, _, _)
Render(messages, k, lastAuthor, lastDay) ==
  IF k > Len(messages) THEN <<>>
  ELSE LET msg == messages[k]
           day == DayOf(msg.timestamp)
           newDay == day # lastDay
           author0 == IF newDay THEN "" ELSE lastAuthor
           dayLines ==
             IF newDay
             THEN DaySeparator(lastDay) \o <<DayHeading(day), Blank>>
             ELSE <<>>
           head == IF msg.author # author0
                   THEN AuthorLine(msg.author, msg.timestamp)
                   ELSE ContLine(msg.timestamp)
       IN dayLines \o <<head, ContentLine(msg.id), Blank>>
          \o Render(messages, k + 1, msg.author, day)

messagesToMarkdown(messages) == Render(messages, 1, "", Null)

\* ------------------------------------------------------ getLatestTimestamp
\* The regular expression is not global: the first marker of the text.
getLatestTimestamp(f) ==
  IF ~f.exists THEN Null
  ELSE LET at == {k \in 1..Len(f.lines) : f.lines[k].kind = "marker"}
       IN IF at = {} THEN Null
          ELSE f.lines[CHOOSE k \in at : \A j \in at : k <= j].ts

\* ------------------------------------------------------- extraction result
NoResult == [messages |-> <<>>, error |-> "pending"]
NoChatPane == [messages |-> <<>>, error |-> "No chat pane found"]
NoMessages == [messages |-> <<>>, error |-> "No messages could be extracted"]
Extracted(ids) == [messages |-> ids, error |-> ""]

\* ---------------------------------------------------------------- saveChat
FilterAll(messages, lastTimestamp) == messages

FilterNew(messages, lastTimestamp) ==
  IF lastTimestamp # Null
  THEN SelectSeq(messages, LAMBDA m : m.timestamp > lastTimestamp)
  ELSE messages

Metadata(newMessages) == Marker(newMessages[Len(newMessages)].timestamp)

\* existing.replace(/<!-- last-message: [^\s]+ -->\n?$/, "")
KeepMarker(lines) == lines

StripMarker(lines) ==
  IF Len(lines) > 0 /\ lines[Len(lines)].kind = "marker"
  THEN SubSeq(lines, 1, Len(lines) - 1)
  ELSE lines

\* trimEnd(): the blank lines at the end go
RECURSIVE TrimEnd(_)
TrimEnd(lines) ==
  IF Len(lines) > 0 /\ lines[Len(lines)].kind = "blank"
  THEN TrimEnd(SubSeq(lines, 1, Len(lines) - 1))
  ELSE lines

AppendExport(f, newMessages) ==
  [exists |-> TRUE,
   lines |-> TrimEnd(StripMarker(f.lines))
             \o <<Blank, Rule, Blank, Appended, Blank>>
             \o messagesToMarkdown(newMessages)
             \o <<Metadata(newMessages)>>]

FreshExport(newMessages) ==
  [exists |-> TRUE,
   lines |-> <<Title, Blank, Exported, Blank>>
             \o messagesToMarkdown(newMessages)
             \o <<Metadata(newMessages)>>]

\* saveChat without the early return of markdown.ts:173
WrittenNoReturn(f, lastTimestamp, newMessages) ==
  IF f.exists /\ lastTimestamp # Null
  THEN [exists |-> TRUE,
        lines |-> TrimEnd(StripMarker(f.lines))
                  \o <<Blank, Rule, Blank, Appended, Blank>>
                  \o messagesToMarkdown(newMessages)
                  \o <<IF Len(newMessages) = 0 THEN Marker(lastTimestamp)
                       ELSE Metadata(newMessages)>>]
  ELSE IF Len(newMessages) = 0 THEN f ELSE FreshExport(newMessages)

\* The file a call leaves: untouched when nothing is new (markdown.ts:173).
Written(f, lastTimestamp, newMessages) ==
  IF Len(newMessages) = 0 THEN f
  ELSE IF f.exists /\ lastTimestamp # Null
       THEN AppendExport(f, newMessages)
       ELSE FreshExport(newMessages)

saveChat(ids, keep) ==
  LET lastTimestamp == getLatestTimestamp(file)
      newMessages == FilterNew(Messages(ids), lastTimestamp)
  IN /\ file' = Written(file, lastTimestamp, newMessages)
     /\ ret' = Len(newMessages)
     /\ batch' = IF keep THEN ids ELSE batch
     /\ written' = written \cup {newMessages[k].id : k \in 1..Len(newMessages)}
     /\ lastWritten' = IF Len(newMessages) = 0 THEN lastWritten
                        ELSE newMessages[Len(newMessages)].id
     /\ UNCHANGED <<stamp, hasList, upVars, dnVars, runVars, libVars>>

SaveChat == \E ids \in Batches : saveChat(ids, FALSE)

\* The same call, with its batch remembered.
SaveChatBatch == \E ids \in Batches : saveChat(ids, TRUE)

StoreIdle ==
  /\ file = NoFile
  /\ batch = <<>>
  /\ ret = 0
  /\ written = {}
  /\ lastWritten = Null

UpIdle ==
  /\ upPc = "idle"
  /\ needsScroll = FALSE
  /\ cutoffDate = Null
  /\ sinceDate = Null
  /\ collected = <<>>
  /\ scrollIter = 0
  /\ noChangeCount = 0
  /\ prevOldest = Null
  /\ upResult = NoResult

DownIdle ==
  /\ dnPc = "idle"
  /\ step = 0
  /\ dnNoChange = 0
  /\ cycles = 0
  /\ dnResult = NoResult

RunIdle ==
  /\ mainPc = "idle"
  /\ chatNo = 1
  /\ visible = {}
  /\ running = 0
  /\ evalState = "none"
  /\ scriptRet = NoResult
  /\ timerFired = FALSE
  /\ raceFirst = "none"
  /\ result = NoResult
  /\ outcome = "none"

\* No call has taken a chat name, the output directory is empty.
Unset == <<"unset">>

NameIdle ==
  /\ chatName = <<>>
  /\ filename = Unset
  /\ dir = <<>>

RenderIdle ==
  /\ toRender = <<>>
  /\ markdown = <<>>

TraceIdle ==
  /\ stallRun = 0
  /\ jumpedAt = {}
  /\ dnExit = "none"
  /\ bottomRun = 0
  /\ builtFrom = <<>>

NoReport == [chatsAnalyzed |-> Null]

RetIdle ==
  /\ exports = <<>>
  /\ now = Null
  /\ report = NoReport

SaveIdle ==
  [pc |-> "idle", ids |-> <<>>, lastTimestamp |-> Null, newMessages |-> <<>>,
   markdown |-> <<>>, existing |-> NoFile, writes |-> 0, before |-> NoFile]

\* export-all.ts:757-760
NoTally ==
  [exported |-> 0, skipped |-> 0, quickSkipped |-> 0, failed |-> 0,
   attempts |-> 0, saveCalls |-> 0, gotMessages |-> FALSE]

CallIdle == DAYS = 0 /\ saving = SaveIdle /\ tally = NoTally

LibIdle ==
  /\ NameIdle
  /\ libPc = "idle"
  /\ RenderIdle
  /\ TraceIdle
  /\ RetIdle
  /\ CallIdle

Init ==
  /\ UpIdle
  /\ DownIdle
  /\ RunIdle
  /\ LibIdle
  /\ stamp \in [Ids -> Times]
  /\ hasList = TRUE
  /\ file \in {NoFile, UnmarkedFile}
  /\ batch = <<>>
  /\ ret = 0
  /\ written = {}
  /\ lastWritten = Null

Next == SaveChat

Spec == Init /\ [][Next]_vars

NextBatch == SaveChatBatch

SpecBatch == Init /\ [][NextBatch]_vars

\* ------------------------------------------- saveChat, await by await
\* One call at a time (export-all.ts:826 awaits it).  Lines 152-160.
SaveBegin ==
  /\ saving.pc \in {"idle", "done"}
  /\ \E ids \in Batches :
       saving' = [SaveIdle EXCEPT !.pc = "cursor", !.ids = ids,
                                  !.before = file]
  /\ UNCHANGED <<storeVars, upVars, dnVars, runVars, nameVars, libPc,
                 renderVars, traceVars, retVars, DAYS, tally>>

\* Lines 163-179: the cursor is read, the batch filtered and rendered,
\* the branch chosen.
SaveCursor ==
  /\ saving.pc = "cursor"
  /\ LET lastTimestamp == getLatestTimestamp(file)
         newMessages == FilterNew(Messages(saving.ids), lastTimestamp)
         nothing == Len(newMessages) = 0
     IN /\ saving' =
             [saving EXCEPT
                !.lastTimestamp = lastTimestamp,
                !.newMessages = newMessages,
                !.markdown = IF nothing THEN <<>>
                             ELSE messagesToMarkdown(newMessages),
                !.pc = IF nothing THEN "done"
                       ELSE IF file.exists /\ lastTimestamp # Null
                       THEN "reading" ELSE "writing"]
        /\ ret' = IF nothing THEN 0 ELSE ret
  /\ UNCHANGED <<stamp, hasList, file, batch, written, lastWritten, upVars,
                 dnVars, runVars, nameVars, libPc, renderVars, traceVars,
                 retVars, DAYS, tally>>

\* Line 181.
SaveRead ==
  /\ saving.pc = "reading"
  /\ saving' = [saving EXCEPT !.existing = file, !.pc = "appending"]
  /\ UNCHANGED <<storeVars, upVars, dnVars, runVars, nameVars, libPc,
                 renderVars, traceVars, retVars, DAYS, tally>>

\* Line 195 or line 200, and the return.
SaveWrite ==
  /\ saving.pc \in {"appending", "writing"}
  /\ LET newMessages == saving.newMessages
     IN /\ file' = IF saving.pc = "appending"
                   THEN AppendExport(saving.existing, newMessages)
                   ELSE FreshExport(newMessages)
        /\ ret' = Len(newMessages)
        /\ written' = written \cup {newMessages[k].id : k \in 1..Len(newMessages)}
        /\ lastWritten' = newMessages[Len(newMessages)].id
  /\ saving' = [saving EXCEPT !.writes = saving.writes + 1, !.pc = "done"]
  /\ UNCHANGED <<stamp, hasList, batch, upVars, dnVars, runVars, nameVars,
                 libPc, renderVars, traceVars, retVars, DAYS, tally>>

NextSave == SaveBegin \/ SaveCursor \/ SaveRead \/ SaveWrite

SpecSave == Init /\ [][NextSave]_vars

\* ===================================================== getExtractionScript
\* The host view renders message nodes (one per id, with the timestamp the
\* id carries) and a node without message body or timestamp element.
MaxNode == 2
MaxScrollIter == 2
StallLimit == 3

Bare == Null
NodeIds == {i \in Ids : i <= MaxNode}
Nodes == NodeIds \cup {Bare}

\* A message may be rendered more than once, by distinct nodes that carry
\* its id: node i is the rendering with author, timestamp and content,
\* Torn(i) a rendering without the author element, Gif(i) a rendering that
\* holds an [aria-label="Animated GIF"] element.
NodeWidth == MaxId + 1
Torn(i) == NodeWidth + i
Gif(i) == NodeWidth + NodeWidth + i
RawNodes == Nodes \cup {Torn(i) : i \in NodeIds} \cup {Gif(i) : i \in NodeIds}

\* parseInt(msg.id.replace('message-body-', '')), Null without message body.
NodeId(n) == n % NodeWidth
HasBody(n) == NodeId(n) # Null
IsGif(n) == n >= NodeWidth + NodeWidth
\* authorEl, timeEl and bodyEl are all there (line 213).
WellFormed(n) == n \in Ids

NodeTs(n) == IF HasBody(n) THEN stamp[NodeId(n)] ELSE Null

Recollect(coll, V) == SortedSeq(V)

\* collected.push.apply(collected, list.children): a node collected again
\* changes nothing any reader of collected sees, and is not kept twice.
RECURSIVE Collect(_, _)
Collect(coll, V) ==
  IF V \subseteq Range(coll) THEN coll
  ELSE LET n == CHOOSE x \in V \ Range(coll) : \A y \in V \ Range(coll) : x <= y
       IN Collect(Append(coll, n), V)

getOldestTimestamp(coll) ==
  LET ts == {NodeTs(coll[k]) : k \in 1..Len(coll)} \ {Null}
  IN IF ts = {} THEN Null ELSE CHOOSE t \in ts : \A u \in ts : t <= u

PaneNeverMissing == FALSE

\* if (!list)
PaneMissing == ~hasList

\* Lines 62-89: no list, or the first collect and, when scrolling is
\* wanted and a scroll container exists, the collect after priming.
UpStart ==
  /\ upPc = "idle"
  /\ \E hasContainer \in BOOLEAN, V0 \in SUBSET Nodes, V1 \in SUBSET Nodes :
       IF PaneMissing
       THEN /\ upPc' = "failed"
            /\ upResult' = NoChatPane
            /\ UNCHANGED collected
       ELSE IF needsScroll /\ hasContainer
       THEN /\ upPc' = "scrolling"
            /\ collected' = Collect(Collect(collected, V0), V1)
            /\ UNCHANGED upResult
       ELSE /\ upPc' = "dedup"
            /\ collected' = Collect(collected, V0)
            /\ UNCHANGED upResult
  /\ scrollIter' = 0
  /\ noChangeCount' = 0
  /\ prevOldest' = Null
  /\ UNCHANGED <<needsScroll, cutoffDate, sinceDate, storeVars, dnVars,
                 runVars, libVars>>

\* Lines 84-85: the mutation observer collects while the script sleeps.
UpObserver ==
  /\ upPc = "settling"
  /\ \E V \in SUBSET Nodes : collected' = Collect(collected, V)
  /\ UNCHANGED <<upPc, needsScroll, cutoffDate, sinceDate, scrollIter,
                 noChangeCount, prevOldest, upResult, storeVars, dnVars,
                 runVars, libVars>>

\* Lines 92-99: count the cycle, jump to the top, sleep.
UpTrigger ==
  /\ upPc = "scrolling"
  /\ upPc' = "settling"
  /\ scrollIter' = IF scrollIter < MaxScrollIter THEN scrollIter + 1
                    ELSE scrollIter
  /\ UNCHANGED <<needsScroll, cutoffDate, sinceDate, collected,
                 noChangeCount, prevOldest, upResult, storeVars, dnVars,
                 runVars, libVars>>

StalledLate(n) == n > StallLimit

Stalled(n) == n >= StallLimit

\* Lines 100-128: collect, then the cutoff and the stall tests.
UpEvaluate ==
  /\ upPc = "settling"
  /\ \E V \in SUBSET Nodes :
       LET coll == Collect(collected, V)
           effectiveCutoff == IF cutoffDate # Null THEN cutoffDate
                              ELSE sinceDate
           oldest == getOldestTimestamp(coll)
           hit == /\ effectiveCutoff # Null
                  /\ oldest # Null
                  /\ oldest <= effectiveCutoff
           changed == prevOldest = Null \/ oldest = Null
                      \/ oldest # prevOldest
       IN /\ collected' = coll
          /\ IF hit
             THEN /\ upPc' = "dedup"
                  /\ UNCHANGED <<noChangeCount, prevOldest>>
             ELSE IF ~changed
             THEN /\ noChangeCount' = noChangeCount + 1
                  /\ IF Stalled(noChangeCount + 1)
                     THEN upPc' = "dedup" /\ UNCHANGED prevOldest
                     ELSE upPc' = "scrolling" /\ prevOldest' = oldest
             ELSE /\ noChangeCount' = 0
                  /\ prevOldest' = oldest
                  /\ upPc' = "scrolling"
  /\ UNCHANGED <<needsScroll, cutoffDate, sinceDate, scrollIter, upResult,
                 storeVars, dnVars,
                 runVars, libVars>>

\* Line 140: a node enters the map when it has a message body and no GIF.
Keeps(n) == HasBody(n) /\ ~IsGif(n)

LastOf(coll, i) ==
  coll[CHOOSE k \in 1..Len(coll) :
         /\ Keeps(coll[k]) /\ NodeId(coll[k]) = i
         /\ \A j \in (k + 1)..Len(coll) : ~(Keeps(coll[j]) /\ NodeId(coll[j]) = i)]

\* if (!map.has(id)) map.set(id, n): the first such node of id i.
FirstOf(coll, i) ==
  coll[CHOOSE k \in 1..Len(coll) :
         /\ Keeps(coll[k]) /\ NodeId(coll[k]) = i
         /\ \A j \in 1..(k - 1) : ~(Keeps(coll[j]) /\ NodeId(coll[j]) = i)]

SequenceAll(coll) == SelectSeq(coll, LAMBDA n : Keeps(n))

\* Lines 137-148: the first node of each id, ascending by id.
Sequence(coll) ==
  LET ids == SortedSeq({NodeId(coll[k]) :
                          k \in {j \in 1..Len(coll) : Keeps(coll[j])}})
  IN [k \in 1..Len(ids) |-> FirstOf(coll, ids[k])]

\* Lines 152-157: nodes older than the age cutoff go (a node with a message
\* body has a timestamp here; the code keeps one that has none).
Trim(nodes) ==
  IF cutoffDate = Null THEN nodes
  ELSE SelectSeq(nodes, LAMBDA n : NodeTs(n) >= cutoffDate)

\* Lines 200-228: a node without author, timestamp or content is skipped.
Extract(nodes) ==
  LET ok == SelectSeq(nodes, LAMBDA n : WellFormed(n))
  IN [k \in 1..Len(ok) |-> NodeId(ok[k])]

\* Lines 161-163 and 231.
ScriptResult(nodes) ==
  IF Len(nodes) = 0 THEN NoMessages ELSE Extracted(Extract(nodes))

\* Lines 137-231.
UpFinish ==
  /\ upPc = "dedup"
  /\ LET nodes == Trim(Sequence(collected))
     IN /\ upPc' = IF Len(nodes) = 0 THEN "failed" ELSE "done"
        /\ upResult' = ScriptResult(nodes)
  /\ UNCHANGED <<needsScroll, cutoffDate, sinceDate, collected, scrollIter,
                 noChangeCount, prevOldest, storeVars, dnVars,
                 runVars, libVars>>

\* days = -1, 0 or more; sinceTimestamp given or not.
InitUp ==
  /\ StoreIdle
  /\ DownIdle
  /\ RunIdle
  /\ LibIdle
  /\ hasList \in BOOLEAN
  /\ stamp \in {f \in [Ids -> Times] : \A i \in Ids \ NodeIds : f[i] = 1}
  /\ upPc = "idle"
  /\ needsScroll \in BOOLEAN
  /\ cutoffDate \in (IF needsScroll THEN Times \cup {Null} ELSE {Null})
  /\ sinceDate \in Times \cup {Null}
  /\ collected = <<>>
  /\ scrollIter = 0
  /\ noChangeCount = 0
  /\ prevOldest = Null
  /\ upResult = NoResult

NextUp == UpStart \/ UpObserver \/ UpTrigger \/ UpEvaluate \/ UpFinish

SpecUp == InitUp /\ [][NextUp]_vars

\* The scroll loop with no resume timestamp: the age cutoff alone takes
\* every value effectiveCutoff can have (line 103).
InitStall == InitUp /\ hasList /\ sinceDate = Null

SpecStall == InitStall /\ [][NextUp]_vars

\* --------------------------------------------- the script, by its days
\* getExtractionScript(days) writes days into lines 67-68; the script reads
\* Date.now() once, when it starts.  Instants are milliseconds here.
MaxDays == 2
DayMs == 86400000
DayCounts == -1..MaxDays

AgeCutoffFromZero(d, started) == IF d >= 0 THEN started - d * DayMs ELSE Null

\* Line 68: days > 0 ? new Date(Date.now() - days * 86400000) : null
AgeCutoff(d, started) == IF d > 0 THEN started - d * DayMs ELSE Null

\* Lines 62-89 with lines 67-68 evaluated, not given.
UpCall ==
  /\ upPc = "idle"
  /\ \E hasContainer \in BOOLEAN, V0 \in SUBSET Nodes, V1 \in SUBSET Nodes :
       IF PaneMissing
       THEN /\ upPc' = "failed"
            /\ upResult' = NoChatPane
            /\ UNCHANGED <<needsScroll, cutoffDate, collected>>
       ELSE /\ needsScroll' = (DAYS >= 0)
            /\ cutoffDate' = AgeCutoff(DAYS, now)
            /\ UNCHANGED upResult
            /\ IF needsScroll' /\ hasContainer
               THEN /\ upPc' = "scrolling"
                    /\ collected' = Collect(Collect(collected, V0), V1)
               ELSE /\ upPc' = "dedup"
                    /\ collected' = Collect(collected, V0)
  /\ scrollIter' = 0
  /\ noChangeCount' = 0
  /\ prevOldest' = Null
  /\ UNCHANGED <<sinceDate, storeVars, dnVars, runVars, libVars>>

\* Message 1 is older than one day by a millisecond, message 2 exactly one
\* day old, the others a millisecond old; the script starts at an instant
\* later than MaxDays days.
StartInstants == {(MaxDays + 1) * DayMs + k : k \in 0..1}

InitDays ==
  /\ StoreIdle
  /\ DownIdle
  /\ RunIdle
  /\ NameIdle /\ libPc = "idle" /\ RenderIdle /\ TraceIdle
  /\ saving = SaveIdle
  /\ tally = NoTally
  /\ exports = <<>>
  /\ report = NoReport
  /\ now \in StartInstants
  /\ DAYS \in DayCounts
  /\ hasList \in BOOLEAN
  /\ stamp = [i \in Ids |-> IF i = 1 THEN now - DayMs - 1
                            ELSE IF i = 2 THEN now - DayMs ELSE now - 1]
  /\ upPc = "idle"
  /\ needsScroll = FALSE
  /\ cutoffDate = Null
  /\ sinceDate = Null
  /\ collected = <<>>
  /\ scrollIter = 0
  /\ noChangeCount = 0
  /\ prevOldest = Null
  /\ upResult = NoResult

NextDays == UpCall \/ UpObserver \/ UpTrigger \/ UpEvaluate \/ UpFinish

SpecDays == InitDays /\ [][NextDays]_vars

\* page.evaluate runs the script to its end: after every sleep the script
\* goes on.  The host view owes nothing.
FairSpecUp ==
  /\ SpecUp
  /\ WF_vars(UpStart) /\ WF_vars(UpTrigger) /\ WF_vars(UpEvaluate)
  /\ WF_vars(UpFinish)

\* =========================================== getScrollDownExtractionScript
\* prevCount and currentCount are kept as their difference: the ids a
\* cycle's collect brings that no earlier collect had (line 308 reads
\* nothing else of them).  The view may bring new ids without end.
MaxReveal == 2
StepCeiling == 5000
StallLimitDown == 8
BottomLimit == 5

\* Lines 265-280.
DownStart ==
  /\ dnPc = "idle"
  /\ \E hasContainer \in BOOLEAN :
       IF PaneMissing THEN dnPc' = "failed" /\ dnResult' = NoChatPane
       ELSE IF hasContainer THEN dnPc' = "scrolling" /\ UNCHANGED dnResult
       ELSE dnPc' = "dedup" /\ UNCHANGED dnResult
  /\ step' = 0
  /\ dnNoChange' = 0
  /\ UNCHANGED <<cycles, storeVars, upVars,
                 runVars, libVars>>

LoopGoesOnOffByOne(s) == s <= StepCeiling

\* for (...; step < 5000; ...)
LoopGoesOn(s) == s < StepCeiling

\* Lines 282-329: one pass of the loop body, then step++ and the loop test.
\* noChangeCount after the test of line 308.
Counted(revealed) == IF revealed = 0 THEN dnNoChange + 1 ELSE 0

DownStep(revealed, atBottom) ==
  LET stalled == revealed = 0
      n1 == Counted(revealed)
      gaveUp == stalled /\ n1 >= StallLimitDown
      n2 == IF ~gaveUp /\ atBottom THEN n1 + 1 ELSE n1
      atEnd == ~gaveUp /\ atBottom /\ n2 >= BottomLimit
  IN /\ dnNoChange' = n2
     /\ IF gaveUp \/ atEnd
        THEN dnPc' = "dedup" /\ UNCHANGED step
        ELSE /\ step' = step + 1
             /\ dnPc' = IF LoopGoesOn(step + 1) THEN "scrolling"
                         ELSE "dedup"
     /\ cycles' = cycles + 1

DownCycle ==
  /\ dnPc = "scrolling"
  /\ \E revealed \in 0..MaxReveal, atBottom \in BOOLEAN :
       DownStep(revealed, atBottom)
  /\ UNCHANGED <<dnResult, storeVars, upVars,
                 runVars, libVars>>

\* Lines 310-315: the jump of twice the pane's height, made in a cycle
\* without a new id that brings noChangeCount to 4.
JumpAt == 4
BigJump(revealed) == revealed = 0 /\ Counted(revealed) = JumpAt

\* The exit the pass takes: line 316, line 327, or the loop test.
ExitOf(revealed, atBottom) ==
  IF revealed = 0 /\ Counted(revealed) >= StallLimitDown THEN "stall"
  ELSE IF atBottom /\ Counted(revealed) + 1 >= BottomLimit THEN "bottom"
  ELSE IF ~LoopGoesOn(step + 1) THEN "ceiling"
  ELSE "none"

\* The same pass, observed: the length of the run of cycles that brought
\* no new id, where in that run the big jump was made, and the exit taken.
DownCycleTraced ==
  /\ dnPc = "scrolling"
  /\ \E revealed \in 0..MaxReveal, atBottom \in BOOLEAN :
       LET run == IF revealed = 0 THEN stallRun + 1 ELSE 0
       IN /\ DownStep(revealed, atBottom)
          /\ stallRun' = run
          /\ jumpedAt' = IF revealed # 0 THEN {}
                          ELSE IF BigJump(revealed) THEN jumpedAt \cup {run}
                          ELSE jumpedAt
          /\ dnExit' = ExitOf(revealed, atBottom)
  /\ UNCHANGED <<bottomRun, builtFrom, dnResult, storeVars, upVars, runVars,
                 nameVars, libPc, renderVars, retVars, callVars>>

\* The same pass, observed at line 323: in how many cycles on end the pane
\* was seen at the bottom (counted up to BottomLimit), and the exit taken.
\* A pass that breaks at line 316 does not reach the test.
SeenAtBottom(revealed, atBottom) ==
  IF revealed = 0 /\ Counted(revealed) >= StallLimitDown THEN bottomRun
  ELSE IF ~atBottom THEN 0
  ELSE IF bottomRun < BottomLimit THEN bottomRun + 1
  ELSE bottomRun

DownCycleWatched ==
  /\ dnPc = "scrolling"
  /\ \E revealed \in 0..MaxReveal, atBottom \in BOOLEAN :
       /\ DownStep(revealed, atBottom)
       /\ bottomRun' = SeenAtBottom(revealed, atBottom)
       /\ dnExit' = ExitOf(revealed, atBottom)
  /\ UNCHANGED <<stallRun, jumpedAt, builtFrom, dnResult, storeVars, upVars,
                 runVars, nameVars, libPc, renderVars, retVars, callVars>>

\* Sequences of distinct raw nodes, at most n long.
Arrangements(n) ==
  UNION {{s \in [1..k -> RawNodes] :
            \A i \in 1..k, j \in 1..k : i # j => s[i] # s[j]} : k \in 0..n}

\* What the script has collected when its loop is over: any nodes in any
\* order (two are enough for every case of lines 335-410).
DownCollected == Arrangements(2)

\* Lines 335-410: as lines 137-231, without the trim.
DownFinish ==
  /\ dnPc = "dedup"
  /\ \E coll \in DownCollected :
       LET nodes == Sequence(coll)
       IN /\ dnPc' = IF Len(nodes) = 0 THEN "failed" ELSE "done"
          /\ dnResult' = ScriptResult(nodes)
  /\ UNCHANGED <<step, dnNoChange, cycles, storeVars, upVars,
                 runVars, libVars>>

InitDown ==
  /\ StoreIdle
  /\ UpIdle
  /\ RunIdle
  /\ LibIdle
  /\ hasList \in BOOLEAN
  /\ stamp = [i \in Ids |-> 1]
  /\ dnPc = "idle"
  /\ step = 0
  /\ dnNoChange = 0
  /\ cycles = 0
  /\ dnResult = NoResult

NextDown == DownStart \/ DownCycle \/ DownFinish

SpecDown == InitDown /\ [][NextDown]_vars

InitJump == InitDown /\ hasList

NextJump == DownStart \/ DownCycleTraced \/ DownFinish

SpecJump == InitJump /\ [][NextJump]_vars

NextBottom == DownStart \/ DownCycleWatched \/ DownFinish

SpecBottom == InitJump /\ [][NextBottom]_vars

\* ------------------------------------- both scripts, their loops left out
MaxColl == 3

\* Lines 135-231 and 333-410 on what a loop has collected: any nodes, in
\* any order, each message rendered by any of its nodes.  One of the two
\* scripts was started (export-all.ts:612-614).
InitSeq ==
  /\ StoreIdle
  /\ RunIdle
  /\ LibIdle
  /\ hasList = TRUE
  /\ stamp = [i \in Ids |-> IF i <= MaxTime THEN i ELSE MaxTime]
  /\ \/ /\ upPc = "dedup"
        /\ needsScroll = TRUE
        /\ cutoffDate \in Times \cup {Null}
        /\ sinceDate = Null
        /\ collected \in Arrangements(MaxColl)
        /\ scrollIter = 0
        /\ noChangeCount = 0
        /\ prevOldest = Null
        /\ upResult = NoResult
        /\ DownIdle
     \/ /\ UpIdle
        /\ dnPc = "dedup"
        /\ step = 0
        /\ dnNoChange = 0
        /\ cycles = 0
        /\ dnResult = NoResult

NextSeq == UpFinish \/ DownFinish

SpecSeq == InitSeq /\ [][NextSeq]_vars

\* Lines 62-89 and 265-280: either script up to its loop.
InitEntry ==
  /\ StoreIdle
  /\ DownIdle
  /\ RunIdle
  /\ LibIdle
  /\ hasList \in BOOLEAN
  /\ stamp = [i \in Ids |-> IF i <= MaxTime THEN i ELSE MaxTime]
  /\ upPc = "idle"
  /\ needsScroll \in BOOLEAN
  /\ cutoffDate \in (IF needsScroll THEN Times \cup {Null} ELSE {Null})
  /\ sinceDate \in Times \cup {Null}
  /\ collected = <<>>
  /\ scrollIter = 0
  /\ noChangeCount = 0
  /\ prevOldest = Null
  /\ upResult = NoResult

NextEntry == UpStart \/ DownStart

SpecEntry == InitEntry /\ [][NextEntry]_vars

\* ----------------------------- dedup, trim and extraction, node by node
\* Lines 200-228 and 383-408: the nodes that pass line 213 (395), each of
\* which gives one message of the batch, in this order.
Sources(nodes) == SelectSeq(nodes, LAMBDA n : WellFormed(n))

\* Lines 135-231 of getExtractionScript on the collected list.
BuildUp ==
  /\ upPc = "dedup"
  /\ LET nodes == Trim(Sequence(collected))
     IN /\ upPc' = IF Len(nodes) = 0 THEN "failed" ELSE "done"
        /\ upResult' = ScriptResult(nodes)
        /\ builtFrom' = Sources(nodes)
  /\ UNCHANGED <<needsScroll, cutoffDate, sinceDate, collected, scrollIter,
                 noChangeCount, prevOldest, storeVars, dnVars, runVars,
                 stallRun, jumpedAt, dnExit, bottomRun, nameVars, libPc,
                 renderVars, retVars, callVars>>

\* Lines 333-410 of getScrollDownExtractionScript on its collected list:
\* the script takes no parameter and has no date filter.
BuildDown ==
  /\ dnPc = "dedup"
  /\ LET nodes == Sequence(collected)
     IN /\ dnPc' = IF Len(nodes) = 0 THEN "failed" ELSE "done"
        /\ dnResult' = ScriptResult(nodes)
        /\ builtFrom' = Sources(nodes)
  /\ UNCHANGED <<step, dnNoChange, cycles, storeVars, upVars, runVars,
                 stallRun, jumpedAt, dnExit, bottomRun, nameVars, libPc,
                 renderVars, retVars, callVars>>

\* extractCurrentChat (export-all.ts:605-612) picks one of the two scripts;
\* its loop is over and has collected any nodes in any order.  cutoffDate
\* is the instant the configured days stand for (Null for days = 0); only
\* getExtractionScript is handed days.
InitBuild ==
  /\ StoreIdle
  /\ RunIdle
  /\ LibIdle
  /\ hasList = TRUE
  /\ stamp = [i \in Ids |-> IF i <= MaxTime THEN i ELSE MaxTime]
  /\ cutoffDate \in Times \cup {Null}
  /\ sinceDate = Null
  /\ collected \in Arrangements(MaxColl)
  /\ scrollIter = 0
  /\ noChangeCount = 0
  /\ prevOldest = Null
  /\ upResult = NoResult
  /\ step = 0
  /\ dnNoChange = 0
  /\ cycles = 0
  /\ dnResult = NoResult
  /\ \/ upPc = "dedup" /\ needsScroll = TRUE /\ dnPc = "idle"
     \/ upPc = "idle" /\ needsScroll = FALSE /\ dnPc = "dedup"

NextBuild == BuildUp \/ BuildDown

SpecBuild == InitBuild /\ [][NextBuild]_vars

\* ======================================================= export-all.ts main
\* The loop over the chats.  Every chat holds the messages Ids; its archive
\* is the file, drawn anew when the chat is opened.
MaxChats == 2

\* What an in-page script can return (extract.ts:64, 162, 231).
ScriptResults ==
  {NoChatPane, NoMessages} \cup {Extracted(ids) : ids \in Batches}

\* catch (e): `Evaluation failed: ${e.message}`, for the deadline's
\* rejection and for a rejection of page.evaluate.
TimedOut ==
  [messages |-> <<>>, error |-> "Evaluation failed: Extraction timed out"]
EvalFailed ==
  [messages |-> <<>>, error |-> "Evaluation failed: page.evaluate"]

\* Archives an earlier run can have left.
Archives ==
  {NoFile, UnmarkedFile}
    \cup {FreshExport(Messages(ids)) : ids \in Batches \ {<<>>}}

\* Lines 646-660: the newest datetime among the rendered timestamps.
getNewestVisibleTimestamp(vis) ==
  IF ~hasList \/ vis = {} THEN Null ELSE Max({stamp[i] : i \in vis})

\* Lines 667-680.
canSkipChat(f, vis) ==
  LET lastExported == getLatestTimestamp(f)
      newestVisible == getNewestVisibleTimestamp(vis)
  IN IF lastExported = Null THEN FALSE
     ELSE IF newestVisible = Null THEN FALSE
     ELSE newestVisible <= lastExported

\* Lines 763-783: the next chat is opened, or cannot be.
MainNavigate ==
  /\ mainPc = "navigate"
  /\ chatNo <= MaxChats
  /\ \E success \in BOOLEAN, f \in Archives, vis \in SUBSET Ids :
       IF success
       THEN /\ mainPc' = "quickcheck"
            /\ file' = f
            /\ visible' = vis
            /\ outcome' = "none"
            /\ UNCHANGED chatNo
       ELSE /\ outcome' = "failed"
            /\ chatNo' = chatNo + 1
            /\ UNCHANGED <<mainPc, file, visible>>
  /\ ret' = 0
  /\ result' = NoResult
  /\ UNCHANGED <<stamp, hasList, batch, written, lastWritten, running,
                 evalState, scriptRet, timerFired, raceFirst, upVars, dnVars,
                 libVars>>

\* Lines 785-798 and 612-630: the quick-check, and when the chat is not
\* skipped the script is started and raced against the deadline timer.
MainQuickCheck ==
  /\ mainPc = "quickcheck"
  /\ IF canSkipChat(file, visible)
     THEN /\ outcome' = "quick"
          /\ chatNo' = chatNo + 1
          /\ mainPc' = "navigate"
          /\ UNCHANGED <<running, evalState>>
     ELSE /\ mainPc' = "extracting"
          /\ running' = running + 1
          /\ evalState' = "pending"
          /\ UNCHANGED <<outcome, chatNo>>
  /\ scriptRet' = NoResult
  /\ timerFired' = FALSE
  /\ raceFirst' = "none"
  /\ UNCHANGED <<storeVars, visible, result, upVars, dnVars,
                 libVars>>

\* Promise.race: the first to settle decides.
First(who) == IF raceFirst = "none" THEN who ELSE raceFirst

\* The awaited script returns in the page.
ScriptReturns ==
  /\ mainPc = "extracting"
  /\ evalState = "pending"
  /\ \E r \in ScriptResults : scriptRet' = r
  /\ evalState' = "fulfilled"
  /\ running' = running - 1
  /\ raceFirst' = First("script")
  /\ UNCHANGED <<storeVars, mainPc, chatNo, visible, timerFired, result,
                 outcome, upVars, dnVars,
                 libVars>>

\* page.evaluate rejects: the script's execution context is gone.
EvaluationFails ==
  /\ mainPc = "extracting"
  /\ evalState = "pending"
  /\ evalState' = "rejected"
  /\ running' = running - 1
  /\ raceFirst' = First("failure")
  /\ UNCHANGED <<storeVars, mainPc, chatNo, visible, scriptRet, timerFired,
                 result, outcome, upVars, dnVars,
                 libVars>>

\* Lines 627-629: the deadline timer fires; nothing is told to the page.
TimerFires ==
  /\ mainPc = "extracting"
  /\ ~timerFired
  /\ timerFired' = TRUE
  /\ raceFirst' = First("timer")
  /\ UNCHANGED <<storeVars, mainPc, chatNo, visible, running, evalState,
                 scriptRet, result, outcome, upVars, dnVars,
                 libVars>>

SettleLate(first, returned) ==
  IF returned # NoResult THEN returned
  ELSE IF first = "timer" THEN TimedOut
  ELSE EvalFailed

\* Lines 623-633: return result, or the catch.
Settle(first, returned) ==
  IF first = "script" THEN returned
  ELSE IF first = "timer" THEN TimedOut
  ELSE EvalFailed

\* extractCurrentChat returns; a script still running is no longer awaited.
ExtractReturns ==
  /\ mainPc = "extracting"
  /\ raceFirst # "none"
  /\ result' = Settle(raceFirst, scriptRet)
  /\ mainPc' = "result"
  /\ UNCHANGED <<storeVars, chatNo, visible, running, evalState, scriptRet,
                 timerFired, raceFirst, outcome, upVars, dnVars,
                 libVars>>

\* A script that lost its race ends in the page, whatever main is doing.
AbandonedScriptEnds ==
  /\ mainPc # "idle"
  /\ running > (IF mainPc = "extracting" /\ evalState = "pending" THEN 1
                ELSE 0)
  /\ running' = running - 1
  /\ UNCHANGED <<storeVars, mainPc, chatNo, visible, evalState, scriptRet,
                 timerFired, raceFirst, result, outcome, upVars, dnVars,
                 libVars>>

\* Lines 800-835: count the chat failed or skipped, or save the batch
\* (saveChat, markdown.ts:152-204).
MainHandleResult ==
  /\ mainPc = "result"
  /\ LET lastTimestamp == getLatestTimestamp(file)
         newMessages == FilterNew(Messages(result.messages), lastTimestamp)
     IN IF Len(result.messages) = 0
        THEN /\ outcome' = IF result.error # "" THEN "failed" ELSE "skipped"
             /\ UNCHANGED <<file, ret>>
        ELSE /\ file' = Written(file, lastTimestamp, newMessages)
             /\ ret' = Len(newMessages)
             /\ outcome' = IF Len(newMessages) = 0 THEN "skipped"
                            ELSE "exported"
  /\ chatNo' = chatNo + 1
  /\ mainPc' = "navigate"
  \* the iteration's locals are gone
  /\ result' = NoResult
  /\ evalState' = "none"
  /\ scriptRet' = NoResult
  /\ timerFired' = FALSE
  /\ raceFirst' = "none"
  /\ UNCHANGED <<stamp, hasList, batch, written, lastWritten, visible,
                 running, upVars, dnVars,
                 libVars>>

InitRun ==
  /\ StoreIdle
  /\ UpIdle
  /\ DownIdle
  /\ LibIdle
  /\ hasList = TRUE
  /\ stamp = [i \in Ids |-> IF i <= MaxTime THEN i ELSE MaxTime]
  /\ mainPc = "navigate"
  /\ chatNo = 1
  /\ visible = {}
  /\ running = 0
  /\ evalState = "none"
  /\ scriptRet = NoResult
  /\ timerFired = FALSE
  /\ raceFirst = "none"
  /\ result = NoResult
  /\ outcome = "none"

\* ------------------------------------------------ the loop, with counters
CounterOfNoSkip(res, newCount) ==
  IF Len(res.messages) = 0
  THEN IF res.error # "" THEN "failed" ELSE "none"
  ELSE IF newCount = 0 THEN "skipped" ELSE "exported"

\* Lines 806-833: the counter an extraction result and saveChat's return
\* value increment.
CounterOf(res, newCount) ==
  IF Len(res.messages) = 0
  THEN IF res.error # "" THEN "failed" ELSE "skipped"
  ELSE IF newCount = 0 THEN "skipped" ELSE "exported"

\* exported++, skipped++, quickSkipped++ or failed++
Increment(t, counter) ==
  IF counter \in DOMAIN t THEN [t EXCEPT ![counter] = @ + 1] ELSE t

\* Lines 763-783.
MainNavigateCounted ==
  /\ mainPc = "navigate"
  /\ chatNo <= MaxChats
  /\ \E success \in BOOLEAN, f \in Archives, vis \in SUBSET Ids :
       IF success
       THEN /\ mainPc' = "quickcheck"
            /\ file' = f
            /\ visible' = vis
            /\ outcome' = "none"
            /\ tally' = [tally EXCEPT !.attempts = 0, !.saveCalls = 0,
                                      !.gotMessages = FALSE]
            /\ UNCHANGED chatNo
       ELSE /\ outcome' = "failed"
            /\ tally' = Increment(tally, "failed")
            /\ chatNo' = chatNo + 1
            /\ UNCHANGED <<mainPc, file, visible>>
  /\ ret' = 0
  /\ result' = NoResult
  /\ UNCHANGED <<stamp, hasList, batch, written, lastWritten, running,
                 evalState, scriptRet, timerFired, raceFirst, upVars, dnVars,
                 nameVars, libPc, renderVars, traceVars, retVars, DAYS,
                 saving>>

\* Lines 785-798 and 612-630.
MainQuickCheckCounted ==
  /\ mainPc = "quickcheck"
  /\ IF canSkipChat(file, visible)
     THEN /\ outcome' = "quick"
          /\ tally' = Increment(tally, "quickSkipped")
          /\ chatNo' = chatNo + 1
          /\ mainPc' = "navigate"
          /\ UNCHANGED <<running, evalState>>
     ELSE /\ mainPc' = "extracting"
          /\ tally' = Increment(tally, "attempts")
          /\ running' = running + 1
          /\ evalState' = "pending"
          /\ UNCHANGED <<outcome, chatNo>>
  /\ scriptRet' = NoResult
  /\ timerFired' = FALSE
  /\ raceFirst' = "none"
  /\ UNCHANGED <<storeVars, visible, result, upVars, dnVars, nameVars, libPc,
                 renderVars, traceVars, retVars, DAYS, saving>>

\* Lines 800-835.
MainHandleResultCounted ==
  /\ mainPc = "result"
  /\ LET lastTimestamp == getLatestTimestamp(file)
         newMessages == FilterNew(Messages(result.messages), lastTimestamp)
         counter == CounterOf(result, Len(newMessages))
         saves == counter \in {"exported"}
                  \/ (counter = "skipped" /\ Len(result.messages) > 0)
     IN /\ IF saves
           THEN /\ file' = Written(file, lastTimestamp, newMessages)
                /\ ret' = Len(newMessages)
           ELSE UNCHANGED <<file, ret>>
        /\ outcome' = counter
        /\ tally' = [Increment(IF saves THEN Increment(tally, "saveCalls")
                               ELSE tally, counter)
                       EXCEPT !.gotMessages = Len(result.messages) > 0]
  /\ chatNo' = chatNo + 1
  /\ mainPc' = "navigate"
  /\ result' = NoResult
  /\ evalState' = "none"
  /\ scriptRet' = NoResult
  /\ timerFired' = FALSE
  /\ raceFirst' = "none"
  /\ UNCHANGED <<stamp, hasList, batch, written, lastWritten, visible,
                 running, upVars, dnVars, nameVars, libPc, renderVars,
                 traceVars, retVars, DAYS, saving>>

NextCount ==
  \/ MainNavigateCounted \/ MainQuickCheckCounted \/ ScriptReturns
  \/ EvaluationFails \/ TimerFires \/ ExtractReturns \/ AbandonedScriptEnds
  \/ MainHandleResultCounted

SpecCount == InitRun /\ [][NextCount]_vars

NextRun ==
  \/ MainNavigate \/ MainQuickCheck \/ ScriptReturns \/ EvaluationFails
  \/ TimerFires \/ ExtractReturns \/ AbandonedScriptEnds
  \/ MainHandleResult

SpecRun == InitRun /\ [][NextRun]_vars

\* ========================================================= sanitizeFilename
\* A name is a sequence of characters.  The names offered are a run of
\* ordinary characters (none, or about as long as the cap, or as long as the
\* name of src/tests/markdown.test.ts:167) followed by every short tail.
MaxTail == 3
Cap == 200
LongName == 300

HostileChars == {"/", "\\", ":", "*", "?", "\"", "<", ">", "|"}
White == {" ", "\t", "\n"}
Chars == {"a", "_", " ", "/", ":"}

Pad(k) == [i \in 1..k |-> "a"]
PadLens == {0, Cap - 2, Cap - 1, Cap, LongName}
Tails == UNION {[1..n -> Chars] : n \in 0..MaxTail}
Names == {Pad(k) \o t : k \in PadLens, t \in Tails}

\* .replace(/[\/\\:*?"<>|]/g, "_")
ReplaceHostile(s) ==
  [k \in 1..Len(s) |-> IF s[k] \in HostileChars THEN "_" ELSE s[k]]

\* .replace(/\s+/g, "_") and .replace(/_+/g, "_"): every maximal run of
\* characters of the class becomes one underscore.
Squeeze(s, class) ==
  LET marked == [k \in 1..Len(s) |->
                   IF s[k] \notin class THEN s[k]
                   ELSE IF k > 1 /\ s[k - 1] \in class THEN "" ELSE "_"]
  IN SelectSeq(marked, LAMBDA c : c # "")

\* .replace(/^_|_$/g, ""): an underscore at the start goes, and one at the
\* end that the first match has not consumed.
TrimEnds(s) ==
  LET a == IF Len(s) > 0 /\ s[1] = "_" THEN 2 ELSE 1
      b == IF Len(s) >= a /\ s[Len(s)] = "_" THEN Len(s) - 1 ELSE Len(s)
  IN SubSeq(s, a, b)

SliceNone(s) == s

\* .slice(0, 200)
Slice(s) == SubSeq(s, 1, IF Len(s) < Cap THEN Len(s) ELSE Cap)

sanitizeFilename(name) ==
  Slice(TrimEnds(Squeeze(Squeeze(ReplaceHostile(name), White), {"_"})))

Sanitize ==
  /\ filename = Unset
  /\ filename' = sanitizeFilename(chatName)
  /\ UNCHANGED <<chatName, dir, libPc, renderVars, traceVars, callVars, retVars, storeVars,
                 upVars, dnVars, runVars>>

InitSanitize ==
  /\ StoreIdle
  /\ UpIdle
  /\ DownIdle
  /\ RunIdle
  /\ hasList = TRUE
  /\ stamp = [i \in Ids |-> IF i <= MaxTime THEN i ELSE MaxTime]
  /\ chatName \in Names
  /\ filename = Unset
  /\ dir = <<>>
  /\ libPc = "idle"
  /\ RenderIdle
  /\ TraceIdle
  /\ CallIdle
  /\ RetIdle

NextSanitize == Sanitize

SpecSanitize == InitSanitize /\ [][NextSanitize]_vars

\* ------------------------------------------------- saveChat, by chat name
\* Chats whose names differ in one character, and the output directory that
\* holds their archives: markdown.ts:159-163 derives the path from the name.
ChatNames == {<<"a", c, "a">> : c \in Chars}
Paths == {sanitizeFilename(name) : name \in ChatNames}

SaveChatAs ==
  \E name \in ChatNames, ids \in Batches :
    LET path == sanitizeFilename(name)
        lastTimestamp == getLatestTimestamp(dir[path])
        newMessages == FilterNew(Messages(ids), lastTimestamp)
    IN /\ chatName' = name
       /\ filename' = path
       /\ dir' = [dir EXCEPT
                   ![path] = Written(dir[path], lastTimestamp, newMessages)]
       /\ ret' = Len(newMessages)
       /\ UNCHANGED <<stamp, hasList, file, batch, written, lastWritten,
                      libPc, renderVars, traceVars, callVars, retVars, upVars, dnVars,
                      runVars>>

InitDir ==
  /\ StoreIdle
  /\ UpIdle
  /\ DownIdle
  /\ RunIdle
  /\ hasList = TRUE
  /\ stamp = [i \in Ids |-> IF i <= MaxTime THEN i ELSE MaxTime]
  /\ chatName = <<>>
  /\ filename = Unset
  /\ dir = [p \in Paths |-> NoFile]
  /\ libPc = "idle"
  /\ RenderIdle
  /\ TraceIdle
  /\ CallIdle
  /\ RetIdle

NextDir == SaveChatAs

SpecDir == InitDir /\ [][NextDir]_vars

\* ------------------------------------------- messagesToMarkdown, on its own
\* Any batch: messages of any author string (the author is the trimmed text
\* of the author element, extract.ts:220, which may be empty) with any
\* timestamps, in any order.
MaxBatch == 3
Authors == {"", "Alice", "Bob"}

AnyBatch(n, f) ==
  [k \in 1..n |-> [id |-> k, author |-> f[k][1], timestamp |-> f[k][2]]]

RenderBatch ==
  /\ libPc = "called"
  /\ markdown' = messagesToMarkdown(toRender)
  /\ libPc' = "done"
  /\ UNCHANGED <<toRender, nameVars, traceVars, callVars, retVars, storeVars, upVars, dnVars,
                 runVars>>

InitRender ==
  /\ StoreIdle
  /\ UpIdle
  /\ DownIdle
  /\ RunIdle
  /\ NameIdle
  /\ hasList = TRUE
  /\ stamp = [i \in Ids |-> IF i <= MaxTime THEN i ELSE MaxTime]
  /\ libPc = "called"
  /\ \E n \in 0..MaxBatch :
       \E f \in [1..n -> Authors \X Times] : toRender = AnyBatch(n, f)
  /\ markdown = <<>>
  /\ TraceIdle
  /\ CallIdle
  /\ RetIdle

NextRender == RenderBatch

SpecRender == InitRender /\ [][NextRender]_vars

\* ============================================================ retention.ts
\* An archive is the sequence of its lines that carry a bracketed
\* timestamp: "**Alice** [<ISO-8601>]:", the line saveChat writes
\* (markdown.ts:99 with formatTimestamp of lines 57-59), or
\* "**Alice** [DD.MM.YYYY, HH:MM]:", the line of older exports.  Instants are
\* counted in half days; an archive is named by its place in the directory.
MaxFiles == 3
MaxLines == 2
MaxNow == 5400
TicksPerDay == 2
Today == 40
ClusterThresholdDays == 14
ClusterSize == 3

MS_RETENTION_TIERS == <<30, 60, 90, 120, 180, 365, 730, 1095, 1825, 2555>>

LegacyLine(t) == Line("legacy", "Alice", t, Null)

\* Two instants of one day, one 14 days and one 15 days after them.
RetTimes ==
  {1, 2, 2 + ClusterThresholdDays * TicksPerDay,
   2 + (ClusterThresholdDays + 1) * TicksPerDay}

\* The two instants of one day.
DayTimes == {t \in RetTimes : t <= TicksPerDay}

BracketLines(times) ==
  {AuthorLine("Alice", t) : t \in times} \cup {LegacyLine(t) : t \in times}

ArchiveTexts(times) ==
  UNION {[1..n -> BracketLines(times)] : n \in 0..MaxLines}

Directories(times) ==
  UNION {[1..n -> ArchiveTexts(times)] : n \in 0..MaxFiles}

Min(S) == CHOOSE x \in S : \A y \in S : x <= y

\* /\[(\d{2}\.\d{2}\.\d{4},\s*\d{2}:\d{2})\]/g and parseGermanDate
Matches(f) == SelectSeq(f, LAMBDA l : l.kind = "legacy")

NoRange == [count |-> 0]

extractDateRange(f) ==
  LET found == Matches(f)
      dates == {found[k].ts : k \in 1..Len(found)}
  IN IF Len(found) = 0 THEN NoRange
     ELSE [oldest |-> Min(dates), newest |-> Max(dates), count |-> Len(found)]

Abs(x) == IF x < 0 THEN -x ELSE x

DistanceSigned(tier, days) == tier - days

\* Math.abs(tier.days - days)
Distance(tier, days) == Abs(tier - days)

RECURSIVE NearestFrom(_, _, _)
NearestFrom(k, best, days) ==
  IF k > Len(MS_RETENTION_TIERS) THEN best
  ELSE LET tier == MS_RETENTION_TIERS[k]
       IN NearestFrom(k + 1,
                      IF best = Null \/ Distance(tier, days) < Distance(best, days)
                      THEN tier ELSE best,
                      days)

findNearestTier(days) == NearestFrom(1, Null, days)

\* Math.floor((now - oldest) / (1000 * 60 * 60 * 24))
AgeDays(today, t) == (today - t) \div TicksPerDay

\* Lines 147-162: the archives with a date range, in glob order.
RECURSIVE ChatRanges(_, _, _)
ChatRanges(files, today, k) ==
  IF k > Len(files) THEN <<>>
  ELSE LET range == extractDateRange(files[k])
       IN (IF range.count = 0 THEN <<>>
           ELSE <<[name |-> k, oldest |-> range.oldest,
                   newest |-> range.newest,
                   ageDays |-> AgeDays(today, range.oldest),
                   messageCount |-> range.count]>>)
          \o ChatRanges(files, today, k + 1)

GlobOrder(ranges) == ranges

\* chatRanges.sort((a, b) => b.ageDays - a.ageDays): a stable sort.
RECURSIVE SortByAge(_)
SortByAge(ranges) ==
  IF ranges = <<>> THEN <<>>
  ELSE LET first == Head(ranges)
           rest == SortByAge(Tail(ranges))
       IN SelectSeq(rest, LAMBDA c : c.ageDays > first.ageDays)
          \o <<first>>
          \o SelectSeq(rest, LAMBDA c : c.ageDays <= first.ageDays)

\* chatRanges.reduce((a, b) => a.newest > b.newest ? a : b)
RECURSIVE NewestFrom(_, _, _)
NewestFrom(ranges, k, a) ==
  IF k > Len(ranges) THEN a
  ELSE NewestFrom(ranges, k + 1,
                  IF a.newest > ranges[k].newest THEN a ELSE ranges[k])

ClustersAbove(size) == size > ClusterSize

\* oldestCluster.length >= 3
Clusters(size) == size >= ClusterSize

analyzeRetention(files, today) ==
  LET chatRanges == SortByAge(ChatRanges(files, today, 1))
  IN IF Len(chatRanges) = 0
     THEN [chatsAnalyzed |-> Len(files), chatsWithDates |-> 0,
           oldestMessage |-> Null, newestMessage |-> Null,
           medianOldestAgeDays |-> 0, maxOldestAgeDays |-> 0,
           explanation |-> "none", nearestRetentionTier |-> Null,
           chatRanges |-> <<>>]
     ELSE LET maxAge == chatRanges[1].ageDays
              oldestChat == chatRanges[1]
              newestChat == NewestFrom(chatRanges, 2, chatRanges[1])
              oldestCluster ==
                SelectSeq(chatRanges,
                          LAMBDA c : c.ageDays >= maxAge - ClusterThresholdDays)
          IN [chatsAnalyzed |-> Len(files),
              chatsWithDates |-> Len(chatRanges),
              oldestMessage |->
                [date |-> oldestChat.oldest, chat |-> oldestChat.name],
              newestMessage |->
                [date |-> newestChat.newest, chat |-> newestChat.name],
              medianOldestAgeDays |->
                chatRanges[(Len(chatRanges) \div 2) + 1].ageDays,
              maxOldestAgeDays |-> maxAge,
              explanation |-> IF Clusters(Len(oldestCluster)) THEN "cluster"
                              ELSE "generic",
              nearestRetentionTier |-> findNearestTier(maxAge),
              chatRanges |-> chatRanges]

Analyze ==
  /\ libPc = "called"
  /\ report' = analyzeRetention(exports, now)
  /\ libPc' = "done"
  /\ UNCHANGED <<exports, now, nameVars, renderVars, traceVars, callVars, storeVars,
                 upVars, dnVars, runVars>>

\* analyzeRetention(outputDir), called on the archives of a directory at an
\* instant.
Called(directories, instants) ==
  /\ StoreIdle
  /\ UpIdle
  /\ DownIdle
  /\ RunIdle
  /\ NameIdle
  /\ RenderIdle
  /\ TraceIdle
  /\ CallIdle
  /\ hasList = TRUE
  /\ stamp = [i \in Ids |-> IF i <= MaxTime THEN i ELSE MaxTime]
  /\ libPc = "called"
  /\ exports \in directories
  /\ now \in instants
  /\ report = NoReport

\* Any directory of archives of one day, analyzed at one instant.
InitRetention == Called(Directories(DayTimes), {Today})

NextRetention == Analyze

SpecRetention == InitRetention /\ [][NextRetention]_vars

\* Directories of archives of one legacy line each.
OldExports ==
  UNION {[1..n -> {<<LegacyLine(t)>> : t \in RetTimes}] : n \in 0..MaxFiles}

InitCluster == Called(OldExports, {Today})

SpecCluster == InitCluster /\ [][NextRetention]_vars

\* Directories that mix archives without a bracketed timestamp, archives
\* as saveChat writes them, and archives with legacy timestamps of several
\* ages (part_000:36-54 and 98-113).
MixedArchives ==
  {<<>>, <<AuthorLine("Alice", 1)>>} \cup
  {<<LegacyLine(t)>> : t \in RetTimes} \cup
  {<<LegacyLine(Max(RetTimes)), AuthorLine("Alice", 1), LegacyLine(2)>>}

MixedExports == UNION {[1..n -> MixedArchives] : n \in 0..MaxFiles}

InitMixed == Called(MixedExports, {Today})

SpecMixed == InitMixed /\ [][NextRetention]_vars

\* One archive of one legacy line, analyzed at any instant.
InitTier == Called({<<<<LegacyLine(1)>>>>}, 1..MaxNow)

SpecTier == InitTier /\ [][NextRetention]_vars

\* ============================================================ extraction
\* C9: whatever the host view does, the scroll loop of getExtractionScript
\* leaves the Scrolling state after a bounded number of cycles.
C9_LeavesScrolling ==
  (upPc = "scrolling") ~> (upPc \in {"dedup", "done", "failed"})

\* C10: the loop of getScrollDownExtractionScript performs at most 5000
\* trigger-collect cycles, and once it has performed 5000 it is over and
\* deduplication and result construction follow.
C10_Ceiling ==
  /\ cycles <= StepCeiling
  /\ cycles = StepCeiling => dnPc \in {"dedup", "done", "failed"}
  /\ dnPc = "scrolling" => cycles = step

C10_Witness ==
  cycles = StepCeiling /\ dnPc = "done"

\* A step that ends a cycle of the scroll loop of getExtractionScript: the
\* sleep is over, the collect and the tests of lines 100-128 are made.
EndsCycle == upPc = "settling" /\ upPc' # "settling"

\* C11: with a resume (since) timestamp configured, the scroll loop stops at
\* the end of the first cycle after which the oldest timestamp among the
\* collected nodes is at or before the resume timestamp, whatever days is.
C11_StopsAtResume ==
  [][(/\ EndsCycle
      /\ sinceDate # Null
      /\ getOldestTimestamp(collected') # Null
      /\ getOldestTimestamp(collected') <= sinceDate)
     => upPc' = "dedup"]_vars

\* The oldest collected timestamp is the one the previous cycle left.
SameOldest ==
  /\ prevOldest # Null
  /\ getOldestTimestamp(collected') = prevOldest

\* The cycle ends the loop at the cutoff test of lines 103-111.
HitsCutoff ==
  LET effectiveCutoff == IF cutoffDate # Null THEN cutoffDate ELSE sinceDate
  IN /\ effectiveCutoff # Null
     /\ getOldestTimestamp(collected') # Null
     /\ getOldestTimestamp(collected') <= effectiveCutoff

UpReturned == upPc \in {"done", "failed"}
DownReturned == dnPc \in {"done", "failed"}

\* After the configured cutoff (the age cutoff, else the resume timestamp).
InRange(n) ==
  LET cutoff == IF cutoffDate # Null THEN cutoffDate ELSE sinceDate
  IN cutoff = Null \/ NodeTs(n) > cutoff

\* C12: when the scroll loop of getExtractionScript is over, the returned
\* batch holds every message that a collected node renders well-formed
\* with a timestamp after the configured cutoff: dedup, trim and the skip
\* of malformed nodes exclude no such message.
C12_NoInRangeLoss ==
  UpReturned =>
    \A n \in Range(collected) :
      (WellFormed(n) /\ InRange(n)) => NodeId(n) \in Range(upResult.messages)

Ascending(ids) ==
  \A j \in 1..Len(ids), k \in 1..Len(ids) : j < k => ids[j] < ids[k]

\* C14: whatever nodes were collected, with whatever repetition of ids, the
\* messages either extraction script returns are strictly ascending by id,
\* so that no id comes twice.
C14_DedupAscending ==
  /\ Ascending(upResult.messages)
  /\ Ascending(dnResult.messages)

C14_Witness ==
  /\ upPc = "done" /\ Len(upResult.messages) >= 2
  /\ \E j \in 1..Len(collected), k \in 1..Len(collected) :
       /\ j < k
       /\ Keeps(collected[j]) /\ Keeps(collected[k])
       /\ NodeId(collected[j]) >= NodeId(collected[k])
  /\ \E j \in 1..Len(collected), k \in 1..Len(collected) :
       j # k /\ Keeps(collected[j]) /\ NodeId(collected[j]) = NodeId(collected[k])

\* The orders in which the nodes of S can have been collected.
Orders(S) ==
  {s \in [1..Cardinality(S) -> S] :
     \A i \in 1..Len(s), j \in 1..Len(s) : i # j => s[i] # s[j]}

\* C15: a run of getExtractionScript that collects the same nodes in
\* another order returns the same message ids in the same order.
C15_OrderFree ==
  UpReturned =>
    \A other \in Orders(Range(collected)) :
      ScriptResult(Trim(Sequence(other))).messages = upResult.messages

NoError == ""

\* C16: a result an extraction script returns has zero messages exactly
\* when it carries an error reason.
C16_TypedFailure ==
  /\ UpReturned => (Len(upResult.messages) = 0 <=> upResult.error # NoError)
  /\ DownReturned => (Len(dnResult.messages) = 0 <=> dnResult.error # NoError)

\* C17: with the message-list container absent, each extraction script
\* returns zero messages with the reason 'No chat pane found' at once: it
\* has collected nothing, triggered no scroll, and does nothing further.
C17_FailsImmediately ==
  /\ (~hasList /\ upPc # "idle") =>
       /\ upResult = [messages |-> <<>>, error |-> "No chat pane found"]
       /\ collected = <<>> /\ scrollIter = 0
       /\ ~ENABLED NextUp
  /\ (~hasList /\ dnPc # "idle") =>
       /\ dnResult = [messages |-> <<>>, error |-> "No chat pane found"]
       /\ step = 0 /\ cycles = 0
       /\ ~ENABLED NextDown

C17_Witness ==
  ~hasList /\ upPc = "failed" /\ dnPc = "failed"

C19_OneScript == running <= 1

\* What a full extraction of the open chat followed by saveChat would write.
WouldWrite(f) ==
  FilterNew(Messages(SortedSeq(Ids)), getLatestTimestamp(f))

\* C20: the quick-check skips a chat exactly when its archive has a cursor
\* and the newest visible timestamp is at or before it; a skipped chat
\* starts no script and leaves its archive as it is; and for a skipped chat
\* a full extraction followed by saveChat would have written 0 messages.
C20_QuickCheck ==
  [][(mainPc = "quickcheck" /\ mainPc' # "quickcheck") =>
       LET cursor == getLatestTimestamp(file)
           seen == {stamp[i] : i \in visible}
           skipped == outcome' = "quick"
       IN /\ skipped <=> (/\ cursor # Null
                           /\ seen # {}
                           /\ Max(seen) <= cursor)
          /\ skipped => (/\ file' = file
                          /\ running' = running
                          /\ mainPc' = "navigate"
                          /\ Len(WouldWrite(file)) = 0)]_vars

\* ============================================================ the store
\* Every step of Spec and of SpecBatch is one saveChat call: the unprimed
\* variables are the state the call found, the primed ones the state it left.

\* How often the text of message i is rendered in an archive.
Count(i, f) ==
  Cardinality({k \in 1..Len(f.lines) :
                 f.lines[k].kind = "content" /\ f.lines[k].id = i})

\* The rendered message lines of an archive: one per rendered message.
MessageLines(f) ==
  Cardinality({k \in 1..Len(f.lines) : f.lines[k].kind \in {"author", "cont"}})

Markers(f) ==
  Cardinality({k \in 1..Len(f.lines) : f.lines[k].kind = "marker"})

Held(f) == {i \in Ids : Count(i, f) > 0}

IsPrefix(s, t) == Len(s) <= Len(t) /\ SubSeq(t, 1, Len(s)) = s

HasAppended(f) == \E k \in 1..Len(f.lines) : f.lines[k].kind = "appended"

\* C1: saving the same batch a second time returns 0 and leaves the archive
\* file unchanged.
C1_Idempotent ==
  [][batch' = batch => (ret' = 0 /\ file' = file)]_vars

\* C2: after a call that wrote, the cursor read back from the archive is the
\* maximum timestamp over all messages ever written into it.
C2_CursorIsMax ==
  ret > 0 => getLatestTimestamp(file) = Max({stamp[i] : i \in written})

\* C3: every message that occurred in some batch is rendered in the archive
\* exactly once.  Stated after every call, of the messages of its batch and
\* of the messages written so far: a message of an earlier batch that was
\* never written is missing right after the call of that batch.
C3_ExactlyOnce ==
  \A i \in Range(batch) \cup written : Count(i, file) = 1

\* C4: a batch that re-includes what the archive holds plus further messages,
\* all later than everything held, returns the number of further messages,
\* and the archive gains one rendered block per further message and none for
\* a re-included one.
C4_PartialOverlap ==
  [][LET held == Held(file)
         further == Range(batch') \ held
     IN (/\ held # {}
         /\ held \subseteq Range(batch')
         /\ further # {}
         /\ \A j \in further : stamp[j] > Max({stamp[i] : i \in held}))
        => (/\ ret' = Cardinality(further)
            /\ MessageLines(file') = MessageLines(file) + Cardinality(further)
            /\ \A i \in held : Count(i, file') = Count(i, file)
            /\ \A j \in further : Count(j, file') = 1)]_vars

\* C5: the cursor read after a saveChat call is never earlier than the cursor
\* read before it, and a cursor that was present is still present.
C5_NoRegress ==
  [][getLatestTimestamp(file) # Null
     => (/\ getLatestTimestamp(file') # Null
         /\ getLatestTimestamp(file') >= getLatestTimestamp(file))]_vars

\* A call has written to an archive that had a cursor.
C5_Witness ==
  ret > 0 /\ HasAppended(file) /\ getLatestTimestamp(file) # Null

\* C6: when saveChat writes to an archive file that already exists, the
\* previous content without its trailing cursor marker is a prefix of the
\* new content.
C6_AppendOnly ==
  [][(file.exists /\ file' # file)
     => IsPrefix(StripMarker(file.lines), file'.lines)]_vars

\* C7: a saveChat call that returns 0 neither creates nor modifies the
\* archive file.
C7_NoMutation ==
  [][ret' = 0 => file' = file]_vars

\* A call on an archive that earlier calls wrote, and that has a cursor,
\* returned 0.
C7_Witness ==
  ret = 0 /\ written # {} /\ getLatestTimestamp(file) # Null

\* C8: once saveChat has written, the archive holds exactly one cursor
\* marker, it is the last line, and it carries the timestamp of the last
\* message written by the latest call that wrote.
C8_OneMarker ==
  written # {}
  => (/\ Markers(file) = 1
      /\ file.lines[Len(file.lines)] = Marker(stamp[lastWritten]))

\* The latest call wrote, to an archive that had been written before.
C8_Witness ==
  written # {} /\ ret > 0 /\ HasAppended(file)


\* ============================================================= file names
\* C21: a saveChat call made under one chat name leaves the archive of
\* every chat of another name as it was, content and cursor.
C21_OneArchivePerChat ==
  [][\A other \in ChatNames :
       other # chatName'
         => dir'[sanitizeFilename(other)] = dir[sanitizeFilename(other)]]_vars

\* C22: the string sanitizeFilename returns has at most 200 characters,
\* none of them one of / \ : * ? " < > | or whitespace, no two underscores
\* next to each other; 300 ordinary characters give exactly 200.
C22_Shape ==
  filename # Unset =>
    /\ Len(filename) <= Cap
    /\ \A k \in 1..Len(filename) : filename[k] \notin HostileChars \cup White
    /\ \A k \in 1..(Len(filename) - 1) :
         ~(filename[k] = "_" /\ filename[k + 1] = "_")
    /\ chatName = Pad(LongName) => Len(filename) = Cap

C22_Witness ==
  /\ filename # Unset
  /\ Len(chatName) > LongName
  /\ \E k \in 1..Len(chatName) : chatName[k] \in HostileChars
  /\ Len(filename) = Cap

\* C23: the string sanitizeFilename returns neither begins nor ends with an
\* underscore, whatever the length of the name.
C23_Trimmed ==
  (filename # Unset /\ Len(filename) > 0) =>
    filename[1] # "_" /\ filename[Len(filename)] # "_"


\* ============================================================== rendering
\* The timestamp lines of an output, the j-th of them, and the lines that
\* stand between the (j-1)-th and the j-th.
IsHead(l) == l.kind \in {"author", "cont"}

Heads(out) == {k \in 1..Len(out) : IsHead(out[k])}

HeadAt(out, j) ==
  LET heads == Heads(out)
  IN CHOOSE k \in heads : Cardinality({i \in heads : i <= k}) = j

Lead(out, j) ==
  LET from == IF j > 1 THEN HeadAt(out, j - 1) + 1 ELSE 1
      to == HeadAt(out, j) - 1
  IN from..to

KindIn(out, K, kind) == Cardinality({k \in K : out[k].kind = kind})

\* No earlier message of the batch is of the calendar day of message j.
FirstOfDay(j) ==
  \A i \in 1..(j - 1) :
    DayOf(toRender[i].timestamp) # DayOf(toRender[j].timestamp)

\* Message j is the first of the batch or of another day than the one
\* before it.
DayChanges(j) ==
  j = 1 \/ DayOf(toRender[j - 1].timestamp) # DayOf(toRender[j].timestamp)

DayGrouping(Opens(_)) ==
  libPc = "done" =>
    /\ Cardinality(Heads(markdown)) = Len(toRender)
    /\ \A j \in 1..Len(toRender) :
         /\ KindIn(markdown, Lead(markdown, j), "day")
              = IF Opens(j) THEN 1 ELSE 0
         /\ KindIn(markdown, Lead(markdown, j), "rule")
              = IF j > 1 /\ DayChanges(j) THEN 1 ELSE 0
    /\ KindIn(markdown, 1..Len(markdown), "day") <= Len(toRender)
    /\ Len(toRender) > 0 =>
         KindIn(markdown, 1..Len(markdown), "rule")
           = KindIn(markdown, 1..Len(markdown), "day") - 1

\* C28: a day heading is emitted before the first message of each calendar
\* day and nowhere else, a separator exactly once between two consecutive
\* day groups and never inside a day, so that there is one separator less
\* than there are day headings.
C28_DayGrouping == DayGrouping(FirstOfDay)

\* C28, amended: a day heading is emitted before every message that is the
\* first of the batch or of another day than the message before it, and
\* nowhere else; the separators are as stated.
C28_RunGrouping == DayGrouping(DayChanges)

C28_Witness ==
  /\ libPc = "done"
  /\ Len(toRender) = 3
  /\ DayOf(toRender[1].timestamp) = DayOf(toRender[3].timestamp)
  /\ DayOf(toRender[1].timestamp) # DayOf(toRender[2].timestamp)
  /\ KindIn(markdown, 1..Len(markdown), "day") = 3
  /\ KindIn(markdown, 1..Len(markdown), "rule") = 2

\* C29: every message produces exactly one timestamp line, the full author
\* line exactly when the message opens a day or its author differs from the
\* author of the message before it, the time-only continuation line
\* otherwise.
C29_AuthorLabel ==
  libPc = "done" =>
    /\ Cardinality(Heads(markdown)) = Len(toRender)
    /\ \A j \in 1..Len(toRender) :
         markdown[HeadAt(markdown, j)]
           = IF DayChanges(j) \/ toRender[j].author # toRender[j - 1].author
             THEN AuthorLine(toRender[j].author, toRender[j].timestamp)
             ELSE ContLine(toRender[j].timestamp)


\* ============================================================ scroll-down
\* C30: within one run of consecutive cycles in which the number of unique
\* message ids did not grow, the oversized jump is performed exactly once,
\* at the 4th of them, and the loop gives up for stalling only at the 8th.
C30_Escalation ==
  /\ jumpedAt \subseteq {JumpAt}
  /\ stallRun >= JumpAt => jumpedAt = {JumpAt}
  /\ dnExit = "stall" => stallRun = StallLimitDown


\* ============================================================== retention
\* The archives of the directory that have a bracketed timestamp, the
\* dates the analysis read in an archive, the archives the report lists.
Dated == {k \in 1..Len(exports) : Len(exports[k]) > 0}

DatesOf(k) ==
  {exports[k][i].ts : i \in {i \in 1..Len(exports[k]) : exports[k][i].kind = "legacy"}}

Listed == {report.chatRanges[j].name : j \in 1..Len(report.chatRanges)}

AgeOf(k) == AgeDays(now, Min(DatesOf(k)))

MaxAge == Max({AgeOf(k) : k \in Listed})

NearMax == {k \in Listed : AgeOf(k) >= MaxAge - ClusterThresholdDays}

\* C24: an archive whose message lines carry bracketed timestamps, ISO-8601
\* as saveChat writes them or of the legacy DD.MM.YYYY, HH:MM format, is
\* counted in chatsWithDates and reported with messageCount equal to the
\* number of its bracketed timestamps.
C24_BothFormats ==
  libPc = "done" =>
    /\ report.chatsWithDates = Cardinality(Dated)
    /\ \A k \in Dated :
         \E j \in 1..Len(report.chatRanges) :
           /\ report.chatRanges[j].name = k
           /\ report.chatRanges[j].messageCount = Len(exports[k])

\* C25: in a non-empty report oldestMessage.date is at or before every
\* timestamp of every analyzed archive and is a timestamp of the archive
\* oldestMessage names; newestMessage likewise, at or after.
C25_Extremes ==
  (libPc = "done" /\ report.chatsWithDates > 0) =>
    /\ \A k \in Listed : \A t \in DatesOf(k) :
         report.oldestMessage.date <= t /\ t <= report.newestMessage.date
    /\ report.oldestMessage.date \in DatesOf(report.oldestMessage.chat)
    /\ report.newestMessage.date \in DatesOf(report.newestMessage.chat)

C31_EndOfList == dnExit = "bottom" => bottomRun >= BottomLimit


\* ==================================================== dedup, node by node
BuildReturned == upPc = "done" \/ dnPc = "done"

Returned == IF upPc = "done" THEN upResult.messages ELSE dnResult.messages

\* Where in collected the first node stands that satisfies Eligible and
\* carries the id of node n.
EarliestOf(n, Eligible(_)) ==
  CHOOSE j \in 1..Len(collected) :
    /\ Eligible(collected[j]) /\ NodeId(collected[j]) = NodeId(n)
    /\ \A h \in 1..(j - 1) :
         ~(Eligible(collected[h]) /\ NodeId(collected[h]) = NodeId(n))

FirstWins(Eligible(_)) ==
  BuildReturned =>
    /\ Len(builtFrom) = Len(Returned)
    /\ \A k \in 1..Len(builtFrom) :
         /\ Returned[k] = NodeId(builtFrom[k])
         /\ builtFrom[k] = collected[EarliestOf(builtFrom[k], Eligible)]
         /\ ~IsGif(builtFrom[k])

\* C32: every message of the returned batch is built from the earliest
\* collected node that carries its id, whatever nodes of the same id were
\* collected later, and never from a node with the animated-GIF marker.
C32_FirstOccurrence == FirstWins(HasBody)

\* C32, amended: the earliest collected node of the id that carries no
\* animated-GIF marker.
C32_FirstKept == FirstWins(Keeps)

C32_Witness ==
  /\ BuildReturned
  /\ \E k \in 1..Len(builtFrom) :
       \E h \in 1..Len(collected), j \in 1..Len(collected) :
         /\ h < EarliestOf(builtFrom[k], Keeps) /\ EarliestOf(builtFrom[k], Keeps) < j
         /\ IsGif(collected[h]) /\ Keeps(collected[j])
         /\ NodeId(collected[h]) = NodeId(builtFrom[k])
         /\ NodeId(collected[j]) = NodeId(builtFrom[k])

\* A node that lacks the author, the timestamp or the content element.
Malformed(n) == ~WellFormed(n) /\ ~IsGif(n)

WithoutMalformed == SelectSeq(collected, LAMBDA n : ~Malformed(n))

\* C33: a collected node that lacks author, timestamp or body is left out
\* of the batch without an error, and the batch is the one the script
\* returns when the malformed nodes were not collected at all: none of
\* them removes, reorders or alters a message of another node.
C33_AbsorbedLocally ==
  /\ upPc = "done" =>
        upResult.messages = Extract(Trim(Sequence(WithoutMalformed)))
  /\ dnPc = "done" =>
        dnResult.messages = Extract(Sequence(WithoutMalformed))

\* C34: with an age cutoff configured (days > 0), every message of the
\* batch either script returns has its timestamp at or after the cutoff
\* instant; without one, no message is removed because of its date.
C34_DateTrim ==
  BuildReturned =>
    IF cutoffDate # Null
    THEN \A k \in 1..Len(Returned) : stamp[Returned[k]] >= cutoffDate
    ELSE Returned = Extract(Sequence(collected))


\* ================================================= the script, by its days
\* The script starts: it passes line 64.
Starts == upPc = "idle" /\ upPc' # "failed"

\* C35: with days = -1 the script neither primes nor triggers a scroll and
\* collects nothing after its first collect; with days = 0 it scrolls and
\* has no age cutoff; with days > 0 its age cutoff is the instant
\* days * 86400000 ms before its start.
C35_DaysParameter ==
  [][/\ Starts =>
          /\ needsScroll' = (DAYS # -1)
          /\ DAYS = -1 => cutoffDate' = Null /\ upPc' = "dedup"
          /\ DAYS = 0 => cutoffDate' = Null
          /\ DAYS > 0 => cutoffDate' + DAYS * DayMs = now
     /\ (DAYS = -1 /\ upPc # "idle") =>
          /\ collected' = collected
          /\ upPc' \notin {"scrolling", "settling"}
          /\ scrollIter' = 0]_vars

C35_Witness ==
  /\ DAYS > 0
  /\ upPc = "done"
  /\ scrollIter > 0
  /\ cutoffDate = now - DAYS * DayMs
  /\ \E n \in Range(collected) : NodeTs(n) < cutoffDate


\* ================================================= saveChat, await by await
\* The archive holds what it held when the call began (less the marker
\* and the blank lines at its end), every new message of the call, and
\* the marker last.
Merged ==
  /\ file.exists
  /\ IsPrefix(TrimEnd(StripMarker(saving.before.lines)), file.lines)
  /\ \A k \in 1..Len(saving.newMessages) :
       ContentLine(saving.newMessages[k].id) \in Range(file.lines)
  /\ file.lines[Len(file.lines)].kind = "marker"

\* C36: a saveChat call writes the archive at most once, as its last step,
\* when the cursor is read and the new messages are filtered and rendered;
\* until then the archive is what the call found, and afterwards it is the
\* complete merged document.
C36_NoPartialWrites ==
  saving.pc # "idle" =>
    /\ saving.writes <= 1
    /\ saving.writes = 0 => file = saving.before
    /\ saving.writes = 1 =>
         /\ saving.pc = "done"
         /\ saving.markdown = messagesToMarkdown(saving.newMessages)
         /\ Merged


\* ======================================================= retention, counts
\* C37: chatsAnalyzed is the number of archive files found; chatsWithDates
\* is the number of archives with at least one parseable timestamp and the
\* length of chatRanges; an archive without one is counted in chatsAnalyzed
\* and appears in no range statistic.
C37_Counts ==
  libPc = "done" =>
    /\ report.chatsAnalyzed = Len(exports)
    /\ report.chatsWithDates = Len(report.chatRanges)
    /\ Len(report.chatRanges) = Cardinality(Dated)
    /\ Listed \subseteq Dated

\* The same with the archives in which the analysis finds a timestamp of
\* the legacy format.
Parsed == {k \in 1..Len(exports) : DatesOf(k) # {}}

CountsOfParsed ==
  libPc = "done" =>
    /\ report.chatsAnalyzed = Len(exports)
    /\ report.chatsWithDates = Len(report.chatRanges)
    /\ Len(report.chatRanges) = Cardinality(Parsed)
    /\ Listed = Parsed

\* C38: in a non-empty report chatRanges is in non-increasing order of
\* ageDays, maxOldestAgeDays is the largest ageDays, and
\* medianOldestAgeDays is the ageDays at index floor(n/2) of that order,
\* which lies between the smallest and the largest.
C38_AgeStatistics ==
  (libPc = "done" /\ report.chatsWithDates > 0) =>
    LET r == report.chatRanges
        n == Len(r)
        median == report.medianOldestAgeDays
    IN /\ \A j \in 1..n : r[j].ageDays = AgeOf(r[j].name)
       /\ \A j \in 1..(n - 1) : r[j].ageDays >= r[j + 1].ageDays
       /\ report.maxOldestAgeDays = MaxAge
       /\ median = r[(n \div 2) + 1].ageDays
       /\ Cardinality({k \in Listed : AgeOf(k) > median}) <= n \div 2
       /\ Cardinality({k \in Listed : AgeOf(k) >= median}) >= (n \div 2) + 1
       /\ median <= MaxAge
       /\ median >= Min({AgeOf(k) : k \in Listed})

C38_Witness ==
  /\ libPc = "done"
  /\ Len(report.chatRanges) >= 3
  /\ \E j \in Listed, k \in Listed : j < k /\ AgeOf(j) < AgeOf(k)
  /\ report.medianOldestAgeDays < report.maxOldestAgeDays


\* ================================================== the loop, its counters
CountedChats == tally.exported + tally.skipped + tally.quickSkipped + tally.failed

LoopDone == mainPc = "navigate" /\ chatNo = MaxChats + 1

\* C39: when the export loop is over every chat has been counted in
\* exactly one of exported, skipped, quickSkipped and failed, so that the
\* four sum to the number of chats; saveChat is called only for a chat
\* whose extraction returned a message; a chat's extraction is attempted
\* at most once.
C39_LoopAccounting ==
  /\ CountedChats = chatNo - 1
  /\ LoopDone => CountedChats = MaxChats
  /\ tally.saveCalls > 0 => tally.gotMessages
  /\ tally.saveCalls <= 1
  /\ tally.attempts <= 1

C39_Witness ==
  /\ LoopDone
  /\ tally.exported > 0
  /\ tally.attempts = 1
  /\ tally.exported < MaxChats


\* ================================================ the collected list grows
\* C40: during an extraction the collected list is only appended to, by
\* scroll cycles and by observer callbacks in any interleaving, so the
\* oldest timestamp among the collected nodes never becomes newer, from
\* one step to the next and from one cycle to the next.
C40_AppendOnly ==
  [][/\ IsPrefix(collected, collected')
     /\ getOldestTimestamp(collected) # Null =>
          /\ getOldestTimestamp(collected') # Null
          /\ getOldestTimestamp(collected') <= getOldestTimestamp(collected)
     /\ (EndsCycle /\ prevOldest # Null) =>
          /\ getOldestTimestamp(collected') # Null
          /\ getOldestTimestamp(collected') <= prevOldest]_vars

\* An observer callback has collected a node older than anything the
\* cycle before had.
C40_Witness ==
  /\ upPc = "settling"
  /\ scrollIter > 1
  /\ prevOldest # Null
  /\ getOldestTimestamp(collected) < prevOldest

====
